---- MODULE Spec2Model ----
(***************************************************************************)
(* Model of mmpdblib/cli/fragdb_merge.py: the "fragdb_merge" command.      *)
(*                                                                         *)
(* The command is one sequential run.  Its state is the file system (the   *)
(* input databases and the file at the output path), the local variables   *)
(* of fragdb_merge(), the destination SQLite connection (working tables,   *)
(* transaction flag, attached schema "old") and what the run has written   *)
(* to the user (the die() diagnostic, the final report).                   *)
(*                                                                         *)
(* A table is a sequence of rows.  Every column that a statement copies    *)
(* verbatim and never compares is folded into one field "data".  Rows of   *)
(* the destination carry two fields that no statement reads: "src", the    *)
(* position in filenames of the input a row was copied from, and (for      *)
(* fragmentations) "owner", the title of the record that owned the row in  *)
(* that input.  They exist only so that properties can speak about where   *)
(* a row came from.                                                        *)
(***************************************************************************)
EXTENDS Integers, Sequences, FiniteSets, TLC

(* ---------------------------- bounds ----------------------------------- *)
MaxTitle == 2
MaxData == 1
MaxErrs == 1
MaxFrags == 2
MaxFiles == 2
MaxOptVal == 2
SmallRows == 1

Titles == 1..MaxTitle
Data == 1..MaxData

(* The keys of options.to_dict() and the values a setting can take. *)
OptFields == {"cut_smarts", "max_heavies"}
OptVals == 1..MaxOptVal
Options == [OptFields -> OptVals]

(* Python's None for first_options / old_options. *)
NoOptions == [k \in OptFields |-> 0]

InputPaths == {"a.fragdb", "b.fragdb"}
DefaultOutput == "merged.fragdb"
Paths == InputPaths \cup {DefaultOutput}

(* ---------------------------- helpers ---------------------------------- *)
Range(s) == {s[j] : j \in 1..Len(s)}

SeqsUpTo(S, n) == UNION {[1..m -> S] : m \in 0..n}

RECURSIVE SumSeq(_)
SumSeq(s) == IF s = <<>> THEN 0 ELSE Head(s) + SumSeq(Tail(s))

MaxOf(S) == CHOOSE x \in S : \A y \in S : y <= x

(* ---------------------------- file contents ---------------------------- *)
(* What a path holds: no file, a file that is not a fragment database, or *)
(* a fragment database with its options row and its three tables.         *)
NoFile ==
    [kind |-> "nofile", options |-> NoOptions,
     error_record |-> <<>>, record |-> <<>>, fragmentation |-> <<>>]

Junk ==
    [kind |-> "junk", options |-> NoOptions,
     error_record |-> <<>>, record |-> <<>>, fragmentation |-> <<>>]

(* The database open_output_fragdb leaves behind: schema, options, no rows. *)
EmptyFragdb(options) ==
    [kind |-> "fragdb", options |-> options,
     error_record |-> <<>>, record |-> <<>>, fragmentation |-> <<>>]

ErrTables == SeqsUpTo([title : Titles, data : Data], MaxErrs)

(* The record table of an input: ids are the row positions, titles are     *)
(* unique within one database.                                             *)
RecTablesOf(T, n) ==
    {[j \in 1..Len(ts) |-> [id |-> j, title |-> ts[j].title, data |-> ts[j].data]] :
        ts \in {s \in SeqsUpTo([title : T, data : Data], n) :
                  \A x, y \in 1..Len(s) : x # y => s[x].title # s[y].title}}

RecTables == RecTablesOf(Titles, MaxTitle)

FragKey(f) == f.record_id * (MaxData + 1) + f.data

(* The fragmentation table of an input: every row belongs to a record of   *)
(* the same database.  Row order is immaterial to every statement, so one  *)
(* order per multiset of rows is enumerated.                               *)
FragTables(rec) ==
    {s \in SeqsUpTo([record_id : {r.id : r \in Range(rec)}, data : Data], MaxFrags) :
        \A x \in 1..Len(s) - 1 : FragKey(s[x]) <= FragKey(s[x + 1])}

Fragdbs ==
    UNION {{[kind |-> "fragdb", options |-> o, error_record |-> e,
             record |-> r, fragmentation |-> f] : f \in FragTables(r)} :
           o \in Options, e \in ErrTables, r \in RecTables}

(* A file left over at the output path by an earlier run. *)
StaleOutput ==
    [kind |-> "fragdb", options |-> [k \in OptFields |-> 1],
     error_record |-> <<[title |-> 1, data |-> 1]>>,
     record |-> <<[id |-> 1, title |-> 1, data |-> 1]>>,
     fragmentation |-> <<[record_id |-> 1, data |-> 1]>>]

(* ---------------------------- state ------------------------------------ *)
VARIABLES
    files,              \* path -> content: the file system
    files0,             \* the file system when the run started (never changes)
    filenames,          \* the FILENAME arguments
    output_filename,    \* --output, or the default
    pc,                 \* position of the run inside fragdb_merge()
    i,                  \* index in filenames of the loop variable "filename"
    first_filename,
    first_options,
    old_options,
    output_c,           \* FALSE while output_db / output_c are None
    conn,               \* the destination connection: "none", "open", "closed"
    db,                 \* the destination as the connection sees it
    txn,                \* a transaction is active on the connection
    attached,           \* the paths attached to the connection as "old"
    exc,                \* the exception that is propagating, or "none"
    diag,               \* what die() wrote to the error stream
    num_records,
    num_error_records,
    report              \* the "Merge complete" line

vars == <<files, files0, filenames, output_filename, pc, i, first_filename,
          first_options, old_options, output_c, conn, db, txn, attached, exc,
          diag, num_records, num_error_records, report>>

None == -1

NoDiag == [kind |-> "none", file |-> "", first |-> "", title |-> 0, fields |-> {}]
NoReport == [emitted |-> FALSE, files |-> 0, records |-> 0, error_records |-> 0]

filename == filenames[i]

(* The database attached as "old". *)
old == files[CHOOSE p \in attached : TRUE]

(* ---------------------------- SQL -------------------------------------- *)
(* The id SQLite gives the next row of a table whose id column is the      *)
(* integer primary key.                                                    *)
NextId(tbl) == IF tbl = <<>> THEN 1 ELSE MaxOf({r.id : r \in Range(tbl)}) + 1

(* The title of the record that owns fragmentation row f in database o. *)
OwnerTitle(o, f) == (CHOOSE r \in Range(o.record) : r.id = f.record_id).title

(* Step 1 without the schema name: FROM error_record, the destination's    *)
(* own table.                                                              *)
CopyErrorRecordsFromSelf(d, o, k) ==
    [d EXCEPT !.error_record = @ \o
        [j \in 1..Len(d.error_record) |->
            [title |-> d.error_record[j].title, data |-> d.error_record[j].data,
             src |-> k]]]

(* Step 1 of fragdb_merge_sql: INSERT INTO error_record ... FROM old.error_record *)
CopyErrorRecords(d, o, k) ==
    [d EXCEPT !.error_record = @ \o
        [j \in 1..Len(o.error_record) |->
            [title |-> o.error_record[j].title, data |-> o.error_record[j].data,
             src |-> k]]]

(* Step 2: INSERT INTO record ... FROM old.record; the destination numbers *)
(* the new rows itself.                                                    *)
CopyRecords(d, o, k) ==
    [d EXCEPT !.record = @ \o
        [j \in 1..Len(o.record) |->
            [id |-> NextId(d.record) + j - 1, title |-> o.record[j].title,
             data |-> o.record[j].data, src |-> k]]]

(* A copy that keeps the parent reference of the input. *)
NewRecordIdVerbatim(new_record, old_record, old_fragmentation) ==
    old_fragmentation.record_id

(* The parent of a copied fragmentation: new_record.id of the join row. *)
NewRecordId(new_record, old_record, old_fragmentation) == new_record.id

(* A join that forgets to match the titles. *)
JoinConditionNoTitle(new_record, old_record, old_fragmentation) ==
    old_fragmentation.record_id = old_record.id

(* The WHERE clause of step 3. *)
JoinCondition(new_record, old_record, old_fragmentation) ==
    /\ old_record.title = new_record.title
    /\ old_fragmentation.record_id = old_record.id

(* Step 3: INSERT INTO fragmentation SELECT new_record.id, ...             *)
(*   FROM record as new_record, old.record as old_record,                  *)
(*        old.fragmentation as old_fragmentation WHERE ...                 *)
CopyFragmentations(d, o, k) ==
    LET nn == Len(d.record)
        no == Len(o.record)
        nf == Len(o.fragmentation)
        all == [x \in 1..(nf * no * nn) |->
                   <<((x - 1) \div (no * nn)) + 1,
                     (((x - 1) \div nn) % no) + 1,
                     ((x - 1) % nn) + 1>>]
        Match(t) == JoinCondition(d.record[t[3]], o.record[t[2]], o.fragmentation[t[1]])
        hits == SelectSeq(all, Match)
    IN  [d EXCEPT !.fragmentation = @ \o
            [j \in 1..Len(hits) |->
                [record_id |-> NewRecordId(d.record[hits[j][3]], o.record[hits[j][2]],
                                            o.fragmentation[hits[j][1]]),
                 data |-> o.fragmentation[hits[j][1]].data,
                 owner |-> OwnerTitle(o, o.fragmentation[hits[j][1]]),
                 src |-> k]]]

(* The destination after the first n statements of fragdb_merge_sql. *)
fragdb_merge_sql(d, o, k, n) ==
    LET d1 == IF n >= 1 THEN CopyErrorRecords(d, o, k) ELSE d
        d2 == IF n >= 2 THEN CopyRecords(d1, o, k) ELSE d1
    IN  IF n >= 3 THEN CopyFragmentations(d2, o, k) ELSE d2

(* A duplicate check that finds nothing. *)
DuplicateTitlesNone(d, o) == {}

(* The rows of the duplicate check: SELECT old_record.title FROM old.record *)
(* as old_record, record as new_record WHERE the titles are equal.          *)
DuplicateTitles(d, o) ==
    {r.title : r \in Range(o.record)} \cap {r.title : r \in Range(d.record)}

(* ---------------------------- die -------------------------------------- *)
(* die(lines): write the lines to the error stream, raise SystemExit. *)
die(d) ==
    /\ diag' = d
    /\ exc' = "SystemExit"

(* A listing that stops at the first differing field. *)
MismatchLinesFirstOnly(options, first) ==
    LET k == CHOOSE f \in OptFields : options[f] # first[f]
    IN  {<<k, options[k], first[k]>>}

(* The fields check_options_mismatch lists: k, d[k], first_d[k]. *)
MismatchLines(options, first) ==
    {<<k, options[k], first[k]>> : k \in {f \in OptFields : options[f] # first[f]}}

(* ---------------------------- the run ---------------------------------- *)
InputContents == Fragdbs \cup {Junk}
OutputContents == {NoFile, StaleOutput}

InitRun ==
    /\ files0 = files
    /\ pc = "for"
    /\ i = 1
    /\ first_filename = ""
    /\ first_options = NoOptions
    /\ old_options = NoOptions
    /\ output_c = FALSE
    /\ conn = "none"
    /\ db = NoFile
    /\ txn = FALSE
    /\ attached = {}
    /\ exc = "none"
    /\ diag = NoDiag
    /\ num_records = None
    /\ num_error_records = None
    /\ report = NoReport

(* The arguments: one or more input paths.  Paths are interchangeable, so  *)
(* the first argument is always a.fragdb; a path no argument names holds   *)
(* no file.  Settings are only ever compared with one another, so those of *)
(* a.fragdb are fixed and those of b.fragdb range over all values.         *)
FirstContents ==
    {c \in InputContents : c.kind = "fragdb" => c.options = [k \in OptFields |-> 1]}

InitArgs ==
    /\ filenames \in {s \in SeqsUpTo(InputPaths, MaxFiles) :
                        Len(s) >= 1 /\ s[1] = "a.fragdb"}
    /\ \E fa \in FirstContents :
       \E fb \in (IF "b.fragdb" \in Range(filenames) THEN InputContents ELSE {NoFile}) :
       \E fo \in OutputContents :
          files = [p \in Paths |-> IF p = "a.fragdb" THEN fa
                                   ELSE IF p = "b.fragdb" THEN fb ELSE fo]

(* The output path is a path of its own. *)
Init ==
    /\ InitArgs
    /\ output_filename = DefaultOutput
    /\ InitRun

(* The output path may also be one of the input paths. *)
InitAlias ==
    /\ InitArgs
    /\ output_filename \in Paths
    /\ InitRun

(* Runs over three arguments.  To keep them enumerable each input holds at *)
(* most SmallRows records, fragmentations and error records, and there is  *)
(* no file at the output path.  There is one record title more than in the *)
(* runs over one or two arguments, so that three inputs can each bring a   *)
(* title of their own; error records all have the same title.  c.fragdb is *)
(* named only where a third distinct file is needed.                       *)
SmallTitles == 1..(MaxTitle + 1)

SmallFragdbs ==
    UNION {{[kind |-> "fragdb", options |-> o, error_record |-> e,
             record |-> r, fragmentation |-> f] :
                f \in {g \in FragTables(r) : Len(g) <= SmallRows}} :
           o \in Options,
           e \in SeqsUpTo([title : {1}, data : Data], SmallRows),
           r \in RecTablesOf(SmallTitles, SmallRows)}

SmallContents == SmallFragdbs \cup {Junk}

SmallFirstContents ==
    {c \in SmallContents : c.kind = "fragdb" => c.options = [k \in OptFields |-> 1]}

ThreeLists ==
    {<<"a.fragdb", "b.fragdb", "c.fragdb">>, <<"a.fragdb", "b.fragdb", "a.fragdb">>,
     <<"a.fragdb", "b.fragdb", "b.fragdb">>, <<"a.fragdb", "a.fragdb", "b.fragdb">>}

InitThree ==
    /\ filenames \in ThreeLists
    /\ \E fa \in SmallFirstContents :
       \E fb \in SmallContents :
       \E fc \in (IF "c.fragdb" \in Range(filenames) THEN SmallContents ELSE {NoFile}) :
          files = [p \in Paths \cup {"c.fragdb"} |->
                     IF p = "a.fragdb" THEN fa
                     ELSE IF p = "b.fragdb" THEN fb
                     ELSE IF p = "c.fragdb" THEN fc ELSE NoFile]
    /\ output_filename = DefaultOutput
    /\ InitRun

(* Lines 137-144: open_fragdb(filename), read its options, close it. *)
OpenFragdb ==
    /\ pc = "for"
    /\ IF files[filename].kind = "fragdb"
       THEN /\ old_options' = files[filename].options
            /\ pc' = "options"
            /\ UNCHANGED <<exc, diag>>
       ELSE /\ die([NoDiag EXCEPT !.kind = "InvalidInputFormat", !.file = filename])
            /\ pc' = "finally"
            /\ UNCHANGED old_options
    /\ UNCHANGED <<files, files0, filenames, output_filename, i, first_filename,
                   first_options, output_c, conn, db, txn, attached,
                   num_records, num_error_records, report>>

(* fragment_db.init_fragdb(c, options), line 84: the tables are created    *)
(* and the options are stored in the new database.  The INSERT that stores *)
(* them opens a transaction on the connection (sqlite3.connect at line 82  *)
(* keeps the default isolation level) and nothing here commits it.         *)
init_fragdb(options) == [db |-> EmptyFragdb(options), txn |-> TRUE]

(* Lines 72-86, called from lines 146-155.  os.unlink removes the file at  *)
(* the output path (a missing file is not an error); sqlite3.connect       *)
(* creates it; init_fragdb initializes it; the indices are created.        *)
(* Outcomes: "ok"; "unlink" - os.unlink raises an OSError other than       *)
(* FileNotFoundError; "connect" - sqlite3.connect raises OperationalError; *)
(* "init" - a statement of the initialization raises OperationalError,     *)
(* after the connection was made.                                          *)
open_output_fragdb(outcome) ==
    /\ first_options' = old_options
    /\ first_filename' = filename
    /\ CASE outcome = "ok" ->
              /\ files' = [files EXCEPT ![output_filename] = EmptyFragdb(old_options)]
              /\ db' = init_fragdb(old_options).db
              /\ conn' = "open"
              /\ txn' = init_fragdb(old_options).txn
              /\ output_c' = TRUE
              /\ pc' = "attach"
              /\ UNCHANGED <<exc, diag>>
         [] outcome = "unlink" ->
              /\ exc' = "OSError"
              /\ pc' = "finally"
              /\ UNCHANGED <<files, db, conn, txn, output_c, diag>>
         [] outcome = "connect" ->
              /\ files' = [files EXCEPT ![output_filename] = NoFile]
              /\ die([NoDiag EXCEPT !.kind = "OutputOpenFailure", !.file = output_filename])
              /\ pc' = "finally"
              /\ UNCHANGED <<db, conn, txn, output_c>>
         [] outcome = "init" ->
              /\ files' = [files EXCEPT ![output_filename] = Junk]
              /\ conn' = "open"
              /\ die([NoDiag EXCEPT !.kind = "OutputOpenFailure", !.file = output_filename])
              /\ pc' = "finally"
              /\ UNCHANGED <<db, txn, output_c>>

OpenOutput ==
    /\ pc = "options"
    /\ first_options = NoOptions
    /\ \E outcome \in {"ok", "unlink", "connect", "init"} : open_output_fragdb(outcome)
    /\ UNCHANGED <<files0, filenames, output_filename, i, old_options, attached,
                   num_records, num_error_records, report>>

(* A comparison that looks at one setting only. *)
OptionsEqualOneField(options, first) ==
    options["cut_smarts"] = first["cut_smarts"]

(* Line 91: d == first_d, the comparison of the two to_dict() results. *)
OptionsEqual(options, first) == \A k \in OptFields : options[k] = first[k]

(* A check that reports the differing settings and carries on. *)
check_options_mismatch_warn ==
    /\ pc' = "attach"
    /\ IF OptionsEqual(old_options, first_options)
       THEN UNCHANGED <<exc, diag>>
       ELSE /\ diag' = [NoDiag EXCEPT !.kind = "OptionsMismatch", !.file = filename,
                                      !.first = first_filename,
                                      !.fields = MismatchLines(old_options, first_options)]
            /\ UNCHANGED exc

(* Lines 88-99, called from line 157. *)
check_options_mismatch ==
    IF OptionsEqual(old_options, first_options)
    THEN /\ pc' = "attach"
         /\ UNCHANGED <<exc, diag>>
    ELSE /\ die([NoDiag EXCEPT !.kind = "OptionsMismatch", !.file = filename,
                               !.first = first_filename,
                               !.fields = MismatchLines(old_options, first_options)])
         /\ pc' = "finally"

CheckOptions ==
    /\ pc = "options"
    /\ first_options # NoOptions
    /\ check_options_mismatch
    /\ UNCHANGED <<files, files0, filenames, output_filename, i, first_filename,
                   first_options, old_options, output_c, conn, db, txn, attached,
                   num_records, num_error_records, report>>

(* Lines 159-162: ATTACH DATABASE filename AS old.  SQLite refuses when the *)
(* name "old" is in use; it may also fail to open the file.                 *)
Attach ==
    /\ pc = "attach"
    /\ \E ok \in BOOLEAN :
         IF ok /\ attached = {}
         THEN /\ attached' = {filename}
              /\ pc' = "dupcheck"
              /\ UNCHANGED <<exc, diag>>
         ELSE /\ die([NoDiag EXCEPT !.kind = "AttachFailure", !.file = filename])
              /\ pc' = "finally"
              /\ UNCHANGED attached
    /\ UNCHANGED <<files, files0, filenames, output_filename, i, first_filename,
                   first_options, old_options, output_c, conn, db, txn,
                   num_records, num_error_records, report>>

(* Lines 164-176: the first row of the duplicate query, if any, is fatal.  *)
(* The query has no ORDER BY: any duplicate may come first.                *)
CheckDuplicates ==
    /\ pc = "dupcheck"
    /\ IF DuplicateTitles(db, old) = {}
       THEN /\ pc' = "merge"
            /\ UNCHANGED <<exc, diag>>
       ELSE /\ \E title \in DuplicateTitles(db, old) :
                 die([NoDiag EXCEPT !.kind = "DuplicateKey", !.file = filename,
                                    !.title = title])
            /\ pc' = "commit"
    /\ UNCHANGED <<files, files0, filenames, output_filename, i, first_filename,
                   first_options, old_options, output_c, conn, db, txn, attached,
                   num_records, num_error_records, report>>

(* Line 179: schema._execute_sql(output_c, fragdb_merge_sql) runs the three *)
(* statements in order.  Statement "failing" (1..3) raises and changes      *)
(* nothing; 0 means all three complete.  An INSERT outside a transaction    *)
(* opens one.  A statement that raises either leaves the transaction as it  *)
(* was before that statement (a statement-level error, or an interrupt      *)
(* between two statements) or, "rolled_back", has made SQLite roll the      *)
(* whole transaction back (SQLITE_FULL, SQLITE_IOERR, SQLITE_NOMEM): the    *)
(* connection then sees the committed file again and no transaction is      *)
(* active.                                                                  *)
ExecuteMergeSql ==
    /\ pc = "merge"
    /\ \E failing \in 0..3 : \E rolled_back \in BOOLEAN :
         IF failing # 0 /\ rolled_back
         THEN /\ db' = files[output_filename]
              /\ txn' = FALSE
              /\ exc' = "sqlite3.Error"
         ELSE /\ db' = fragdb_merge_sql(db, old, i, IF failing = 0 THEN 3 ELSE failing - 1)
              /\ txn' = TRUE
              /\ exc' = IF failing = 0 THEN "none" ELSE "sqlite3.Error"
    /\ pc' = "commit"
    /\ UNCHANGED <<files, files0, filenames, output_filename, i, first_filename,
                   first_options, old_options, output_c, conn, attached, diag,
                   num_records, num_error_records, report>>

(* A cleanup that rolls the copy back instead of committing it. *)
InnerRollback ==
    /\ pc = "commit"
    /\ db' = files[output_filename]
    /\ txn' = FALSE
    /\ pc' = "detach"
    /\ UNCHANGED <<files, files0, filenames, output_filename, i, first_filename,
                   first_options, old_options, output_c, conn, attached, exc, diag,
                   num_records, num_error_records, report>>

(* Line 182, in the inner finally: COMMIT.  Without an active transaction   *)
(* SQLite raises and the rest of the finally block is skipped.              *)
InnerCommit ==
    /\ pc = "commit"
    /\ IF txn
       THEN /\ files' = [files EXCEPT ![output_filename] = db]
            /\ txn' = FALSE
            /\ pc' = "detach"
            /\ UNCHANGED exc
       ELSE /\ exc' = "sqlite3.OperationalError"
            /\ pc' = "finally"
            /\ UNCHANGED <<files, txn>>
    /\ UNCHANGED <<files0, filenames, output_filename, i, first_filename,
                   first_options, old_options, output_c, conn, db, attached, diag,
                   num_records, num_error_records, report>>

(* Line 183: DETACH DATABASE old. *)
InnerDetach ==
    /\ pc = "detach"
    /\ IF ~txn /\ attached # {}
       THEN /\ attached' = {}
            /\ pc' = "begin"
            /\ UNCHANGED exc
       ELSE /\ exc' = "sqlite3.OperationalError"
            /\ pc' = "finally"
            /\ UNCHANGED attached
    /\ UNCHANGED <<files, files0, filenames, output_filename, i, first_filename,
                   first_options, old_options, output_c, conn, db, txn, diag,
                   num_records, num_error_records, report>>

(* A cleanup after which the loop goes on although an exception is        *)
(* propagating.                                                            *)
InnerBeginContinue ==
    /\ pc = "begin"
    /\ txn' = TRUE
    /\ IF i < Len(filenames)
       THEN i' = i + 1 /\ pc' = "for"
       ELSE i' = i /\ pc' = "finally"
    /\ UNCHANGED <<files, files0, filenames, output_filename, first_filename,
                   first_options, old_options, output_c, conn, db, attached, exc, diag,
                   num_records, num_error_records, report>>

(* Line 184: BEGIN TRANSACTION, then the exception of the try block, if    *)
(* any, propagates; otherwise the loop goes on to the next filename.       *)
InnerBegin ==
    /\ pc = "begin"
    /\ IF ~txn
       THEN /\ txn' = TRUE
            /\ UNCHANGED exc
            /\ IF exc = "none" /\ i < Len(filenames)
               THEN i' = i + 1 /\ pc' = "for"
               ELSE i' = i /\ pc' = "finally"
       ELSE /\ exc' = "sqlite3.OperationalError"
            /\ pc' = "finally"
            /\ UNCHANGED <<txn, i>>
    /\ UNCHANGED <<files, files0, filenames, output_filename, first_filename,
                   first_options, old_options, output_c, conn, db, attached, diag,
                   num_records, num_error_records, report>>

(* Line 190 with the wrong table. *)
CountErrorRecordsWrongTable(d) == Len(d.record)

(* Line 189: SELECT count of the rows of record. *)
CountRecords(d) == Len(d.record)

(* Line 190: SELECT count of the rows of error_record. *)
CountErrorRecords(d) == Len(d.error_record)

(* A cleanup after which the function carries on whatever happened. *)
AfterFinallySwallow(e) == "report"

(* Leaving the outer finally: a propagating exception leaves the function, *)
(* otherwise line 194 is next.                                             *)
AfterFinally(e) == IF e = "none" THEN "report" ELSE "done"

(* Lines 186-192: the outer finally.  COMMIT, count the rows, close. *)
OuterFinally ==
    /\ pc = "finally"
    /\ IF output_c
       THEN IF txn
            THEN /\ files' = [files EXCEPT ![output_filename] = db]
                 /\ txn' = FALSE
                 /\ num_records' = CountRecords(db)
                 /\ num_error_records' = CountErrorRecords(db)
                 /\ conn' = "closed"
                 /\ UNCHANGED exc
            ELSE /\ exc' = "sqlite3.OperationalError"
                 /\ UNCHANGED <<files, txn, num_records, num_error_records, conn>>
       ELSE UNCHANGED <<files, txn, num_records, num_error_records, conn, exc>>
    /\ pc' = AfterFinally(exc')
    /\ UNCHANGED <<files0, filenames, output_filename, i, first_filename,
                   first_options, old_options, output_c, db, attached, diag, report>>

(* Lines 194-200: reached only when no exception is propagating. *)
Report ==
    /\ pc = "report"
    /\ report' = IF num_records # None /\ num_error_records # None
                 THEN [emitted |-> TRUE, files |-> Len(filenames),
                       records |-> num_records, error_records |-> num_error_records]
                 ELSE report
    /\ pc' = "done"
    /\ UNCHANGED <<files, files0, filenames, output_filename, i, first_filename,
                   first_options, old_options, output_c, conn, db, txn, attached,
                   exc, diag, num_records, num_error_records>>

Next ==
    \/ OpenFragdb
    \/ OpenOutput
    \/ CheckOptions
    \/ Attach
    \/ CheckDuplicates
    \/ ExecuteMergeSql
    \/ InnerCommit
    \/ InnerDetach
    \/ InnerBegin
    \/ OuterFinally
    \/ Report

Spec == Init /\ [][Next]_vars

SpecAlias == InitAlias /\ [][Next]_vars

SpecThree == InitThree /\ [][Next]_vars

(* The exit status of the process once the run is over. *)
ExitStatus == IF exc = "none" THEN 0 ELSE 1

(* The loop of lines 137-184 as a function of the argument list, for an    *)
(* environment that fails nothing: ins are the databases the arguments     *)
(* name, in order; the inputs from position k on are still to be taken;    *)
(* acc.db is the destination so far and acc.ok says that no die() has      *)
(* ended the run.  The result is the destination the run leaves behind.    *)
RECURSIVE MergeInOrder(_, _, _)
MergeInOrder(ins, k, acc) ==
    IF k > Len(ins) \/ ~acc.ok THEN acc
    ELSE LET o == ins[k]
             d == IF k = 1 THEN init_fragdb(o.options).db ELSE acc.db
         IN  IF o.kind # "fragdb"
             THEN [ok |-> FALSE, db |-> acc.db]
             ELSE IF k > 1 /\ ~OptionsEqual(o.options, ins[1].options)
             THEN [ok |-> FALSE, db |-> acc.db]
             ELSE IF DuplicateTitles(d, o) # {}
             THEN [ok |-> FALSE, db |-> d]
             ELSE MergeInOrder(ins, k + 1,
                               [ok |-> TRUE, db |-> fragdb_merge_sql(d, o, k, 3)])

(* ---------------------------- vocabulary of the properties ------------- *)
N == Len(filenames)

(* Input k as it was when the run started. *)
In(k) == files0[filenames[k]]

(* The destination as committed to the file at the output path. *)
Committed == files[output_filename]

TitlesOf(d) == {r.title : r \in Range(d.record)}

(* The validations of input k, in the order the run makes them. *)
Valid(k) == In(k).kind = "fragdb"
SameOptions(k) == In(k).options = In(1).options
Fresh(k) == \A m \in 1..(k - 1) : TitlesOf(In(m)) \cap TitlesOf(In(k)) = {}
Passes(k) == Valid(k) /\ SameOptions(k) /\ Fresh(k)

(* The first input that does not pass, 0 when all pass, and why it fails. *)
FirstFailing ==
    IF \A k \in 1..N : Passes(k) THEN 0
    ELSE CHOOSE k \in 1..N : ~Passes(k) /\ \A m \in 1..(k - 1) : Passes(m)

Reason(k) ==
    IF ~Valid(k) THEN "InvalidInputFormat"
    ELSE IF ~SameOptions(k) THEN "OptionsMismatch"
    ELSE IF ~Fresh(k) THEN "DuplicateKey" ELSE "none"

(* The run ended because the environment failed it: the output could not   *)
(* be removed or opened, an input could not be attached, or SQLite raised  *)
(* on a copy statement (and then, possibly, on the cleanup after it).      *)
EnvFailure ==
    \/ exc \in {"OSError", "sqlite3.Error", "sqlite3.OperationalError"}
    \/ exc = "SystemExit" /\ diag.kind \in {"OutputOpenFailure", "AttachFailure"}

(* How many fragmentations with content x hang off a record titled t. *)
FragCount(d, t, x) ==
    Cardinality({j \in 1..Len(d.fragmentation) :
        /\ d.fragmentation[j].data = x
        /\ \E r \in Range(d.record) :
              r.id = d.fragmentation[j].record_id /\ r.title = t})

FromInput(r, k) == r.src = k

(* The rows of a destination table that came from input k, in order. *)
RowsFrom(tbl, k) == LET Mine(r) == FromInput(r, k) IN SelectSeq(tbl, Mine)

Content(tbl) == [j \in 1..Len(tbl) |-> [title |-> tbl[j].title, data |-> tbl[j].data]]

(* Destination d holds every row of input k. *)
HasAllOf(d, k) ==
    /\ Content(RowsFrom(d.error_record, k)) = Content(In(k).error_record)
    /\ Content(RowsFrom(d.record, k)) = Content(In(k).record)
    /\ Len(RowsFrom(d.fragmentation, k)) = Len(In(k).fragmentation)
    /\ \A t \in TitlesOf(In(k)) : \A x \in Data :
          FragCount(d, t, x) = FragCount(In(k), t, x)

(* Destination d holds no row of input k. *)
HasNoneOf(d, k) ==
    /\ RowsFrom(d.error_record, k) = <<>>
    /\ RowsFrom(d.record, k) = <<>>
    /\ RowsFrom(d.fragmentation, k) = <<>>

(* Destination d holds the inputs in S, complete, and nothing else. *)
HasExactly(d, S) ==
    /\ d.kind = "fragdb"
    /\ \A k \in 1..N : IF k \in S THEN HasAllOf(d, k) ELSE HasNoneOf(d, k)

(* How many rows of a table have title t and content x. *)
RowCount(tbl, t, x) ==
    Cardinality({j \in 1..Len(tbl) : tbl[j].title = t /\ tbl[j].data = x})

(* Databases d and e hold the same rows, whatever their ids and order:     *)
(* the same error records, the same records, and under every record title  *)
(* the same fragmentations.                                                *)
SameRowContent(d, e) ==
    /\ Len(d.error_record) = Len(e.error_record)
    /\ Len(d.record) = Len(e.record)
    /\ Len(d.fragmentation) = Len(e.fragmentation)
    /\ \A x \in Data :
          /\ \A t \in {r.title : r \in Range(d.error_record) \cup Range(e.error_record)} :
                RowCount(d.error_record, t, x) = RowCount(e.error_record, t, x)
          /\ \A t \in TitlesOf(d) \cup TitlesOf(e) :
                /\ RowCount(d.record, t, x) = RowCount(e.record, t, x)
                /\ FragCount(d, t, x) = FragCount(e, t, x)

(* The conditions that end the run through die() for the input at hand. *)
FatalKinds == {"InvalidInputFormat", "OptionsMismatch", "DuplicateKey", "AttachFailure"}

(* ---------------------------- C1 --------------------------------------- *)
(* C1 (union completeness): when two or more inputs have equal options and *)
(* pairwise disjoint record titles, the run raises no validation error     *)
(* and, unless the environment fails it, ends with the report and a        *)
(* committed destination whose record titles are the union of the inputs'  *)
(* titles, each once, and in which every title carries exactly the         *)
(* fragmentations (content and multiplicity) it carried in its input, with *)
(* no fragmentation row beyond those.                                      *)
C1_UnionCompleteness ==
    (pc = "done" /\ N >= 2 /\ FirstFailing = 0) =>
        \/ EnvFailure
        \/ /\ exc = "none"
           /\ report.emitted
           /\ Committed.kind = "fragdb"
           /\ TitlesOf(Committed) = UNION {TitlesOf(In(k)) : k \in 1..N}
           /\ Len(Committed.record) = Cardinality(TitlesOf(Committed))
           /\ \A k \in 1..N : \A t \in TitlesOf(In(k)) : \A x \in Data :
                 FragCount(Committed, t, x) = FragCount(In(k), t, x)
           /\ Len(Committed.fragmentation) =
                 SumSeq([k \in 1..N |-> Len(In(k).fragmentation)])

(* Two inputs whose only records have the same id and different titles,    *)
(* each with a fragmentation, were merged.                                 *)
C1_Witness ==
    /\ pc = "done"
    /\ exc = "none"
    /\ N = 2
    /\ Len(In(1).record) = 1
    /\ Len(In(2).record) = 1
    /\ In(1).record[1].id = In(2).record[1].id
    /\ In(1).record[1].title # In(2).record[1].title
    /\ Len(In(1).fragmentation) >= 1
    /\ Len(In(2).fragmentation) >= 1

(* ---------------------------- C2 --------------------------------------- *)
(* C2 (referential integrity): in every state once the destination is      *)
(* open, in the connection's view and in the committed file, every         *)
(* fragmentation row's record_id is the id of exactly one record row, and  *)
(* that record has the title of the record that owned the fragmentation in *)
(* its input and came from the same input.                                 *)
RefersToOwner(d) ==
    \A j \in 1..Len(d.fragmentation) :
        LET f == d.fragmentation[j]
            parents == {n \in 1..Len(d.record) : d.record[n].id = f.record_id}
        IN  /\ Cardinality(parents) = 1
            /\ \A n \in parents :
                  d.record[n].title = f.owner /\ d.record[n].src = f.src

C2_ReferentialIntegrity ==
    output_c => RefersToOwner(db) /\ RefersToOwner(Committed)

(* The second input's copy has just run and re-keyed a fragmentation: its  *)
(* parent has id 1 in the input and id 2 in the destination.               *)
C2_Witness ==
    /\ pc = "commit"
    /\ i = 2
    /\ exc = "none"
    /\ \E j \in 1..Len(db.fragmentation) :
          /\ db.fragmentation[j].src = 2
          /\ db.fragmentation[j].record_id = 2
    /\ \A j \in 1..Len(In(2).fragmentation) : In(2).fragmentation[j].record_id = 1

(* ---------------------------- C3 --------------------------------------- *)
(* C3 (collision detection): when input k is the first input that does not *)
(* pass and it fails on a record title that an earlier input holds, no row *)
(* of input k is ever in the destination, and the run ends, unless the     *)
(* environment failed it earlier, with a DuplicateKey diagnostic that      *)
(* names input k's file and a title that input k shares with an earlier    *)
(* input.                                                                  *)
C3_CollisionDetection ==
    \A k \in 1..N :
        (FirstFailing = k /\ Reason(k) = "DuplicateKey") =>
            /\ HasNoneOf(db, k)
            /\ output_c => HasNoneOf(Committed, k)
            /\ pc = "done" =>
                  \/ EnvFailure
                  \/ /\ exc = "SystemExit"
                     /\ diag.kind = "DuplicateKey"
                     /\ diag.file = filenames[k]
                     /\ diag.title \in TitlesOf(In(k)) \cap
                            UNION {TitlesOf(In(m)) : m \in 1..(k - 1)}

(* The second input shares exactly one title with the first, has rows in   *)
(* all three tables, and the run has ended on the duplicate.               *)
C3_Witness ==
    /\ pc = "done"
    /\ N = 2
    /\ diag.kind = "DuplicateKey"
    /\ Cardinality(TitlesOf(In(1)) \cap TitlesOf(In(2))) = 1
    /\ Len(In(2).error_record) >= 1
    /\ Len(In(2).record) = 2
    /\ Len(In(2).fragmentation) >= 1
    /\ Len(Committed.record) >= 1

(* ---------------------------- C4 --------------------------------------- *)
(* C4 (options enforcement): when input k is the first input that does not *)
(* pass and it fails on its options, its file is never attached, no row of *)
(* it is ever in the destination, and the run ends, unless the environment *)
(* failed it earlier, with an OptionsMismatch diagnostic that names input  *)
(* k's file and the first file and lists exactly the differing fields,     *)
(* each with input k's value and the first input's value.                  *)
C4_OptionsEnforcement ==
    \A k \in 1..N :
        (FirstFailing = k /\ Reason(k) = "OptionsMismatch") =>
            /\ filenames[k] \notin attached
            /\ HasNoneOf(db, k)
            /\ output_c => HasNoneOf(Committed, k)
            /\ pc = "done" =>
                  \/ EnvFailure
                  \/ /\ exc = "SystemExit"
                     /\ diag.kind = "OptionsMismatch"
                     /\ diag.file = filenames[k]
                     /\ diag.first = filenames[1]
                     /\ diag.fields =
                          {<<f, In(k).options[f], In(1).options[f]>> :
                              f \in {g \in OptFields :
                                       In(k).options[g] # In(1).options[g]}}

(* The second input differs from the first in both settings and has rows;  *)
(* the run has ended on the mismatch.                                      *)
C4_Witness ==
    /\ pc = "done"
    /\ N = 2
    /\ diag.kind = "OptionsMismatch"
    /\ Cardinality(diag.fields) = 2
    /\ Len(In(2).record) >= 1
    /\ Len(In(2).error_record) >= 1

(* ---------------------------- C5 --------------------------------------- *)
(* C5 (durability of completed inputs): when input k >= 2 is the first     *)
(* input that does not pass, the run ends, unless the environment failed   *)
(* it earlier, with the diagnostic of that validation naming input k's     *)
(* file, and the committed destination holds every row of inputs 1..k-1    *)
(* and no row of any other input.                                          *)
C5_Durability ==
    \A k \in 2..N :
        (pc = "done" /\ FirstFailing = k) =>
            \/ EnvFailure
            \/ /\ exc = "SystemExit"
               /\ diag.kind = Reason(k)
               /\ diag.file = filenames[k]
               /\ HasExactly(Committed, 1..(k - 1))

(* The second input is not a database; the first, with rows in all three   *)
(* tables, is committed.                                                   *)
C5_Witness ==
    /\ pc = "done"
    /\ N = 2
    /\ diag.kind = "InvalidInputFormat"
    /\ Len(Committed.error_record) >= 1
    /\ Len(Committed.record) >= 1
    /\ Len(Committed.fragmentation) >= 1

(* ---------------------------- C6 --------------------------------------- *)
(* C6 (inputs are read-only): for every argument list and every output     *)
(* path, every file named as an input holds at every moment what it held   *)
(* when the run started, and so does every file other than the one at the  *)
(* output path.                                                            *)
C6_InputsReadOnly ==
    /\ \A p \in Range(filenames) : files[p] = files0[p]
    /\ \A p \in Paths \ {output_filename} : files[p] = files0[p]

(* ---------------------------- C7 --------------------------------------- *)
(* C7 (the per-input copy is one unit): when the run is over, each input   *)
(* has either all of its rows or none of its rows committed in the         *)
(* destination.                                                            *)
C7_SingleLogicalUnit ==
    (pc = "done" /\ output_c) =>
        \A k \in 1..N : HasAllOf(Committed, k) \/ HasNoneOf(Committed, k)

(* ---------------------------- C8 --------------------------------------- *)
(* C8 (count accounting): the report gives the number of arguments as the  *)
(* file count, every one of those inputs is merged, complete, in the       *)
(* committed destination, and the record and error record counts are the   *)
(* sums of the inputs' record and error record counts.                     *)
C8_CountAccounting ==
    report.emitted =>
        /\ report.files = N
        /\ HasExactly(Committed, 1..N)
        /\ report.records = SumSeq([k \in 1..N |-> Len(In(k).record)])
        /\ report.error_records = SumSeq([k \in 1..N |-> Len(In(k).error_record)])

(* A report over two inputs that hold two records and one error record. *)
C8_Witness ==
    /\ report.emitted
    /\ N = 2
    /\ filenames[1] # filenames[2]
    /\ report.records = 2
    /\ report.error_records = 1

(* ---------------------------- C9 --------------------------------------- *)
(* C9 (no silent partial success): the report is emitted exactly when the  *)
(* run is over, every input passed its validations and the environment     *)
(* failed nothing, and then every input is merged; a run that ends without *)
(* the report exits non-zero and has written a diagnostic (the die()       *)
(* message of the failed validation, of the destination that could not be  *)
(* opened or of the attach that failed, or the traceback of the exception  *)
(* that left the function).                                                *)
C9_NoSilentPartialSuccess ==
    /\ report.emitted <=> (pc = "done" /\ FirstFailing = 0 /\ ~EnvFailure)
    /\ report.emitted => HasExactly(Committed, 1..N) /\ ExitStatus = 0
    /\ (pc = "done" /\ ~report.emitted) =>
          /\ ExitStatus # 0
          /\ \/ exc = "SystemExit" /\ diag.kind # "none"
             \/ exc \in {"OSError", "sqlite3.Error", "sqlite3.OperationalError"}
          /\ (FirstFailing # 0 /\ ~EnvFailure) => diag.kind = Reason(FirstFailing)

(* A run that ended on a duplicate title: the counts were gathered in the  *)
(* cleanup, and there is no report.                                        *)
C9_Witness ==
    /\ pc = "done"
    /\ diag.kind = "DuplicateKey"
    /\ num_records # None
    /\ num_error_records # None
    /\ ~report.emitted

(* ---------------------------- C10 -------------------------------------- *)
(* C10 (attach discipline): at most one input is attached at any time, and *)
(* nothing is attached whenever the run is at the top of the loop, between *)
(* opening an input and attaching it, in the outer cleanup, or over.       *)
C10_AttachDiscipline ==
    /\ Cardinality(attached) <= 1
    /\ pc \in {"for", "options", "attach", "finally", "report", "done"} =>
          attached = {}

(* ---------------------------- C11 -------------------------------------- *)
(* C11 (the destination connection): the connection is opened at most once *)
(* and only closed after it was opened; when the run is over it is not     *)
(* left open, whichever way the run ended; and once it is closed the run   *)
(* is past every statement, so that nothing is issued on it any more.      *)
C11_ConnectionLifecycle ==
    /\ [](pc = "done" => conn # "open")
    /\ [](conn = "closed" => pc \in {"report", "done"})
    /\ [][conn' # conn => \/ conn = "none" /\ conn' = "open"
                          \/ conn = "open" /\ conn' = "closed"]_vars

(* ---------------------------- C12 -------------------------------------- *)
(* C12 (error record titles are unique): after a successful merge no two   *)
(* error records of the committed destination have the same title.         *)
C12_ErrorTitlesUnique ==
    (pc = "done" /\ report.emitted) =>
        \A x, y \in 1..Len(Committed.error_record) :
            x # y => Committed.error_record[x].title # Committed.error_record[y].title

(* ---------------------------- C13 -------------------------------------- *)
(* C13 as stated (a mismatch is found before any copy): when some input's  *)
(* options differ from the first input's, no row of any input is ever in   *)
(* the destination.                                                        *)
C13_NoCopyBeforeMismatch ==
    (Valid(1) /\ \E k \in 2..N : Valid(k) /\ ~SameOptions(k)) =>
        \A m \in 1..N :
            /\ HasNoneOf(db, m)
            /\ output_c => HasNoneOf(Committed, m)

(* C13 as amended: when input k's options differ from the first input's,   *)
(* no row of input k or of any later input is ever in the destination, in  *)
(* the connection's view or committed, and the run ends with an error and  *)
(* without the report.  Rows of the inputs before k may be there.          *)
C13_NoCopyFromMismatchOn ==
    \A k \in 2..N :
        (Valid(1) /\ Valid(k) /\ ~SameOptions(k)) =>
            /\ \A m \in k..N :
                  /\ HasNoneOf(db, m)
                  /\ output_c => HasNoneOf(Committed, m)
                  /\ i >= m => filenames[m] \notin attached
            /\ pc = "done" => exc # "none" /\ ~report.emitted

(* Three inputs: the first, with rows, is committed; the second, which has *)
(* rows too, was turned down for its options; the third, which has rows    *)
(* and the first input's options, was never reached.                       *)
C13_Witness ==
    /\ pc = "done"
    /\ N = 3
    /\ i = 2
    /\ exc = "SystemExit"
    /\ diag.kind = "OptionsMismatch"
    /\ Len(RowsFrom(Committed.record, 1)) >= 1
    /\ Len(RowsFrom(Committed.fragmentation, 1)) >= 1
    /\ Len(In(2).record) >= 1
    /\ Len(In(2).error_record) >= 1
    /\ Valid(3)
    /\ SameOptions(3)
    /\ Len(In(3).record) >= 1

(* ---------------------------- C14 -------------------------------------- *)
(* C14 (fatal conditions are not skipped): once the input at position i    *)
(* has raised a fatal condition, the run is in its cleanup or over, still  *)
(* at position i with the exception propagating; nothing but that input    *)
(* can be attached, and no row of an input after i is ever in the          *)
(* destination.                                                            *)
C14_FatalNotSkipped ==
    diag.kind \in FatalKinds =>
        /\ exc # "none"
        /\ diag.file = filenames[i]
        /\ pc \in {"commit", "detach", "begin", "finally", "done"}
        /\ attached \subseteq {filenames[i]}
        /\ \A j \in (i + 1)..N :
              /\ HasNoneOf(db, j)
              /\ output_c => HasNoneOf(Committed, j)

(* The second of three inputs collided with the first; the third, a valid  *)
(* database with rows, equal options and a title of its own, was never     *)
(* reached.                                                                *)
C14_Witness ==
    /\ pc = "done"
    /\ N = 3
    /\ i = 2
    /\ diag.kind = "DuplicateKey"
    /\ Valid(3)
    /\ SameOptions(3)
    /\ Len(In(3).record) >= 1
    /\ Len(In(3).fragmentation) >= 1
    /\ TitlesOf(In(3)) \cap TitlesOf(In(1)) = {}

(* ---------------------------- C15 -------------------------------------- *)
(* C15 (single-input identity): a run over one valid input ends, unless    *)
(* the environment fails it, with the report and a committed destination   *)
(* that holds the same error records, records and fragmentations per       *)
(* record title as the input, ids and row order aside.                     *)
C15_SingleInputIdentity ==
    (pc = "done" /\ N = 1 /\ Valid(1)) =>
        \/ EnvFailure
        \/ /\ report.emitted
           /\ Committed.kind = "fragdb"
           /\ Committed.options = In(1).options
           /\ SameRowContent(Committed, In(1))

(* One input with an error record, two records and two fragmentations was  *)
(* merged over a file left at the output path.                             *)
C15_Witness ==
    /\ pc = "done"
    /\ N = 1
    /\ report.emitted
    /\ files0[output_filename] = StaleOutput
    /\ Len(In(1).error_record) = 1
    /\ Len(In(1).record) = 2
    /\ Len(In(1).fragmentation) = 2

(* ---------------------------- C16 -------------------------------------- *)
(* C16 (fresh destination, per-input commit): when the destination has     *)
(* just been opened it holds the options and no row, in the connection's   *)
(* view and in the file, whatever was at the output path; and whenever the *)
(* run opens or validates an input after the first, the file holds exactly *)
(* what the connection sees, which is every row of every earlier input.    *)
C16_FreshAndCommitted ==
    /\ (output_c /\ i = 1 /\ pc \in {"attach", "dupcheck", "merge"}) =>
          /\ db = EmptyFragdb(first_options)
          /\ Committed = EmptyFragdb(first_options)
    /\ (i >= 2 /\ pc \in {"for", "options", "attach", "dupcheck", "merge"}) =>
          /\ Committed = db
          /\ HasExactly(Committed, 1..(i - 1))

(* The second input is about to be opened; the first, with rows in every   *)
(* table, replaced a file left at the output path.                         *)
C16_Witness ==
    /\ pc = "for"
    /\ i = 2
    /\ files0[output_filename] = StaleOutput
    /\ Len(In(1).error_record) >= 1
    /\ Len(In(1).record) >= 1
    /\ Len(In(1).fragmentation) >= 1

(* ---------------------------- C17 -------------------------------------- *)
(* C17 (transaction protocol): whenever the run is about to issue the      *)
(* COMMIT of the inner cleanup or, with the destination open, the COMMIT   *)
(* of the outer cleanup, a transaction is active; whenever it is about to  *)
(* issue DETACH or BEGIN TRANSACTION, none is; and no statement of the     *)
(* cleanups is ever refused.                                               *)
C17_TransactionProtocol ==
    /\ pc = "commit" => txn /\ conn = "open"
    /\ pc = "detach" => ~txn /\ attached # {}
    /\ pc = "begin" => ~txn
    /\ (pc = "finally" /\ output_c) => txn /\ conn = "open"
    /\ exc # "sqlite3.OperationalError"

(* ---------------------------- C18 -------------------------------------- *)
(* C18 (order independence): when every argument names a valid database    *)
(* with the first one's options and the environment fails nothing, then    *)
(* for every order of the same arguments the merge succeeds exactly when   *)
(* this run succeeded, and when it does it leaves a destination with the   *)
(* row content this run committed: the same error records, the same        *)
(* records, and under every record title the same fragmentations.          *)
C18_OrderIndependence ==
    (pc = "done" /\ ~EnvFailure /\ \A k \in 1..N : Valid(k) /\ SameOptions(k)) =>
        \A p \in Permutations(1..N) :
            LET other == MergeInOrder([j \in 1..N |-> In(p[j])], 1,
                                      [ok |-> TRUE, db |-> NoFile])
            IN  /\ other.ok <=> exc = "none"
                /\ other.ok => SameRowContent(other.db, Committed)

(* Three distinct files were merged: two bring a record each, under the    *)
(* same id and with a fragmentation, the third brings no record; two of    *)
(* them bring an error record.                                             *)
C18_Witness ==
    /\ pc = "done"
    /\ exc = "none"
    /\ report.emitted
    /\ filenames = <<"a.fragdb", "b.fragdb", "c.fragdb">>
    /\ Len(In(1).record) = 1 /\ Len(In(1).fragmentation) = 1
    /\ Len(In(2).record) = 0
    /\ Len(In(3).record) = 1 /\ Len(In(3).fragmentation) = 1
    /\ Len(In(1).error_record) = 1
    /\ Len(In(2).error_record) = 1

====
